---- MODULE Spec2Model ----
(***************************************************************************)
(* Model of pangeo_forge_prefect/flow_manager.py: the version gate, the    *)
(* target / executor / run-config / flow-storage resolvers, the flow       *)
(* assembler and the registration loop of register_flow.                   *)
(*                                                                         *)
(* Python values are modelled as records; a call's outcome is a record     *)
(* [exc, value, reads]: exc is "" when the call returned and the name of   *)
(* the exception it raised otherwise, value is what it returned, and reads *)
(* is the sequence of names it looked up in the secrets dictionary.        *)
(***************************************************************************)
EXTENDS Integers, Sequences, FiniteSets, TLC

VARIABLES
    meta,        \* decoded meta.yaml (Meta)
    bakery,      \* decoded bakeries.yaml entry of meta.bakery.id (Bakery)
    versions,    \* the runtime's Versions argument
    secrets,     \* the secrets dictionary argument
    prune,       \* the prune argument
    environ,     \* os.environ, as far as the code reads it
    pc,          \* position in register_flow (or in the driver of one resolver)
    exc,         \* the exception that ended the run, "" while none was raised
    idx,         \* index in meta.recipes of the entry being processed
    members,     \* items of the loaded recipes_dict still to be iterated
    cur,         \* the (key, recipe) pair being processed
    extension,   \* result of get_target_extension for cur
    targets,     \* result of configure_targets for cur
    flow,        \* result of recipe_to_flow for cur
    flow_id,     \* result of flow.register for cur
    calls,       \* log of the calls made so far, in order
    order,       \* ids of the recipes the loops have iterated over, in order
    registered,  \* names of the flows registered with the engine, in order
    runs,        \* flow runs created, in order
    hooks,       \* automations created, in order
    reads,       \* secret names looked up so far, in order
    ret          \* outcome of the resolver applied by a single-function driver

vars == <<meta, bakery, versions, secrets, prune, environ, pc, exc, idx, members,
          cur, extension, targets, flow, flow_id, calls, order, registered,
          runs, hooks, reads, ret>>

-----------------------------------------------------------------------------
(* Python values *)

NoneObj == [type |-> "NoneType"]

IsNone(v) == v.type = "NoneType"

Ok(v, rd) == [exc |-> "", value |-> v, reads |-> rd]

Raise(e, rd) == [exc |-> e, value |-> NoneObj, reads |-> rd]

\* A function body that ends without raising: Python returns None.
falls_through == Ok(NoneObj, <<>>)

\* Truthiness of an Optional[str]: None and "" are both false.
TruthyStr(s) == s # "None" /\ s # ""

S3_PROTOCOL == "s3"

ABFS_PROTOCOL == "abfs"

FARGATE_CLUSTER == "aws.fargate"

AKS_CLUSTER == "azure.aks"

-----------------------------------------------------------------------------
(* check_versions *)

\* Variant of check_versions that compares the manifest with the runtime only.
check_versions_no_cluster(m, cluster, v) ==
    IF m.pangeo_notebook_version # v.pangeo_notebook_version
      THEN Raise("UnsupportedPangeoVersion", <<>>)
    ELSE IF m.pangeo_forge_version # v.pangeo_forge_version
      THEN Raise("UnsupportedPangeoForgeRecipeVersion", <<>>)
    ELSE IF v.prefect_version # cluster.prefect_version
      THEN Raise("UnsupportedPrefectVersion", <<>>)
    ELSE Ok([type |-> "bool", val |-> TRUE], <<>>)

check_versions(m, cluster, v) ==
    IF m.pangeo_notebook_version # v.pangeo_notebook_version
      THEN Raise("UnsupportedPangeoVersion", <<>>)
    ELSE IF m.pangeo_notebook_version # cluster.pangeo_notebook_version
      THEN Raise("UnsupportedPangeoVersion", <<>>)
    ELSE IF m.pangeo_forge_version # v.pangeo_forge_version
      THEN Raise("UnsupportedPangeoForgeRecipeVersion", <<>>)
    ELSE IF m.pangeo_forge_version # cluster.pangeo_forge_version
      THEN Raise("UnsupportedPangeoForgeRecipeVersion", <<>>)
    ELSE IF v.prefect_version # cluster.prefect_version
      THEN Raise("UnsupportedPrefectVersion", <<>>)
    ELSE Ok([type |-> "bool", val |-> TRUE], <<>>)

-----------------------------------------------------------------------------
(* configure_targets *)

FSSpecTarget(fs, path) == [type |-> "FSSpecTarget", fs |-> fs, root_path |-> path]

CacheFSSpecTarget(fs, path) == [type |-> "CacheFSSpecTarget", fs |-> fs, root_path |-> path]

MetadataTarget(fs, path) == [type |-> "MetadataTarget", fs |-> fs, root_path |-> path]

Targets(t, c, m) == [type |-> "Targets", target |-> t, cache |-> c, metadata |-> m]

S3FileSystem(key, secret) ==
    [type |-> "S3FileSystem", anon |-> FALSE, default_cache_type |-> "none",
     default_fill_cache |-> FALSE, key |-> key, secret |-> secret]

AzureBlobFileSystem(secret) ==
    [type |-> "AzureBlobFileSystem", connection_string |-> secret]

\* Variant of TargetsOn that puts the metadata cache beside the input cache.
TargetsOn_metadata_beside_cache(fs, scheme, target_name, repository, recipe_name, ext) ==
    LET base == scheme \o "://" \o target_name \o "/" \o repository \o "/" \o recipe_name
    IN  Targets(FSSpecTarget(fs, base \o "." \o ext),
                CacheFSSpecTarget(fs, base \o "/cache"),
                MetadataTarget(fs, base \o "/metadata"))

\* The three handles of one recipe on filesystem fs, paths rooted at scheme://.
TargetsOn(fs, scheme, target_name, repository, recipe_name, ext) ==
    LET base == scheme \o "://" \o target_name \o "/" \o repository \o "/" \o recipe_name
    IN  Targets(FSSpecTarget(fs, base \o "." \o ext),
                CacheFSSpecTarget(fs, base \o "/cache"),
                MetadataTarget(fs, base \o "/cache/metadata"))

configure_targets(bk, recipe_bakery, recipe_name, sec, ext, env) ==
    IF recipe_bakery.target \notin DOMAIN bk.targets THEN Raise("KeyError", <<>>)
    ELSE IF "GITHUB_REPOSITORY" \notin DOMAIN env THEN Raise("KeyError", <<>>)
    ELSE
      LET target == bk.targets[recipe_bakery.target]
          repository == env["GITHUB_REPOSITORY"]
          so == target.private.storage_options
      IN  IF target.private.protocol = S3_PROTOCOL THEN
            IF ~IsNone(so) THEN
              IF so.key \notin DOMAIN sec THEN Raise("KeyError", <<so.key>>)
              ELSE IF so.secret \notin DOMAIN sec
                THEN Raise("KeyError", <<so.key, so.secret>>)
              ELSE Ok(TargetsOn(S3FileSystem(sec[so.key], sec[so.secret]), "s3",
                                recipe_bakery.target, repository, recipe_name, ext),
                      <<so.key, so.secret>>)
            ELSE falls_through
          ELSE IF target.private.protocol = ABFS_PROTOCOL THEN
            IF ~IsNone(so) THEN
              IF so.secret \notin DOMAIN sec THEN Raise("KeyError", <<so.secret>>)
              ELSE Ok(TargetsOn(AzureBlobFileSystem(sec[so.secret]), "abfs",
                                recipe_bakery.target, repository, recipe_name, ext),
                      <<so.secret>>)
            ELSE falls_through
          ELSE Raise("UnsupportedTarget", <<>>)

-----------------------------------------------------------------------------
(* configure_dask_executor *)

DaskExecutor(cluster_class, cluster_kwargs, adapt_kwargs) ==
    [type |-> "DaskExecutor", cluster_class |-> cluster_class,
     cluster_kwargs |-> cluster_kwargs, adapt_kwargs |-> adapt_kwargs]

\* dask_kubernetes.make_pod_spec, as far as the arguments given to it go.
make_pod_spec(image, labels, memory_request, cpu_request, env) ==
    [type |-> "V1Pod", image |-> image, labels |-> labels,
     memory_request |-> memory_request, cpu_request |-> cpu_request,
     env |-> env, args |-> <<>>, pod_type |-> "worker"]

clean_pod_template(pod, pod_type) == [pod EXCEPT !.pod_type = pod_type]

ProjectRecipeLabels(recipe_name) == [Project |-> "pangeo-forge", Recipe |-> recipe_name]

\* Variant of UnsupportedClusterType: the final else is missing and None is returned.
cluster_type_not_checked == Ok(NoneObj, <<>>)

\* raise UnsupportedClusterType
UnsupportedClusterType == Raise("UnsupportedClusterType", <<>>)

\* Variant of hint_or that always takes the default.
hint_ignored(resources, field, default) == default

\* recipe_bakery.resources.<field> if recipe_bakery.resources is not None else <default>
hint_or(resources, field, default) ==
    IF ~IsNone(resources) THEN resources[field] ELSE default

configure_dask_executor(cluster, recipe_bakery, recipe_name, sec) ==
    IF cluster.type = FARGATE_CLUSTER THEN
      LET worker_cpu == hint_or(recipe_bakery.resources, "cpu", 1024)
          worker_mem == hint_or(recipe_bakery.resources, "memory", 4096)
      IN  Ok(DaskExecutor(
               "dask_cloudprovider.aws.FargateCluster",
               [image |-> cluster.worker_image,
                vpc |-> cluster.cluster_options.vpc,
                cluster_arn |-> cluster.cluster_options.cluster_arn,
                task_role_arn |-> cluster.cluster_options.task_role_arn,
                execution_role_arn |-> cluster.cluster_options.execution_role_arn,
                security_groups |-> cluster.cluster_options.security_groups,
                scheduler_cpu |-> 2048,
                scheduler_mem |-> 16384,
                worker_cpu |-> worker_cpu,
                worker_mem |-> worker_mem,
                scheduler_timeout |-> "15 minutes",
                environment |->
                  [PREFECT__LOGGING__EXTRA_LOGGERS |-> "['pangeo_forge_recipes']",
                   MALLOC_TRIM_THRESHOLD_ |-> "0"],
                tags |-> ProjectRecipeLabels(recipe_name)],
               [minimum |-> 5, maximum |-> cluster.max_workers]),
             <<>>)
    ELSE IF cluster.type = AKS_CLUSTER THEN
      LET worker_cpu == hint_or(recipe_bakery.resources, "cpu", 250)
          worker_mem == hint_or(recipe_bakery.resources, "memory", 512)
          scheduler_spec ==
            clean_pod_template(
              [make_pod_spec(cluster.worker_image, ProjectRecipeLabels(recipe_name),
                             "10000Mi", "2048m", NoneObj)
                 EXCEPT !.args = <<"dask-scheduler">>],
              "scheduler")
          name == cluster.flow_storage_options.secret
      IN  IF name \notin DOMAIN sec THEN Raise("KeyError", <<name>>)
          ELSE Ok(DaskExecutor(
                    "dask_kubernetes.KubeCluster",
                    [pod_template |->
                       make_pod_spec(cluster.worker_image,
                                     ProjectRecipeLabels(recipe_name),
                                     ToString(worker_mem) \o "Mi",
                                     ToString(worker_cpu) \o "m",
                                     [type |-> "dict",
                                      AZURE_STORAGE_CONNECTION_STRING |-> sec[name]]),
                     scheduler_pod_template |-> scheduler_spec],
                    [minimum |-> 5, maximum |-> cluster.max_workers]),
                  <<name>>)
    ELSE UnsupportedClusterType

-----------------------------------------------------------------------------
(* configure_run_config *)

configure_run_config(cluster, recipe_bakery, recipe_name, sec) ==
    IF cluster.type = FARGATE_CLUSTER THEN
      Ok([type |-> "ECSRun",
          image |-> cluster.worker_image,
          labels |-> <<recipe_bakery.id>>,
          task_definition |->
            [networkMode |-> "awsvpc", cpu |-> 2048, memory |-> 16384,
             containerDefinitions |-> <<[name |-> "flow"]>>,
             executionRoleArn |-> cluster.cluster_options.execution_role_arn],
          run_task_kwargs |->
            [tags |-> <<[key |-> "Project", value |-> "pangeo-forge"],
                        [key |-> "Recipe", value |-> recipe_name]>>]],
         <<>>)
    ELSE IF cluster.type = AKS_CLUSTER THEN
      LET name == cluster.flow_storage_options.secret
      IN  IF name \notin DOMAIN sec THEN Raise("KeyError", <<name>>)
          ELSE Ok([type |-> "KubernetesRun",
                   job_template |->
                     [apiVersion |-> "batch/v1", kind |-> "Job",
                      safe_to_evict |-> "false", container |-> "flow"],
                   image |-> cluster.worker_image,
                   labels |-> <<recipe_bakery.id>>,
                   memory_request |-> "10000Mi",
                   cpu_request |-> "2048m",
                   env |-> [type |-> "dict",
                            AZURE_STORAGE_CONNECTION_STRING |-> sec[name]]],
                  <<name>>)
    ELSE UnsupportedClusterType

-----------------------------------------------------------------------------
(* configure_flow_storage *)

configure_flow_storage(cluster, sec) ==
    LET so == cluster.flow_storage_options
    IN  IF cluster.flow_storage_protocol = S3_PROTOCOL THEN
          IF so.key \notin DOMAIN sec THEN Raise("KeyError", <<so.key>>)
          ELSE IF so.secret \notin DOMAIN sec
            THEN Raise("KeyError", <<so.key, so.secret>>)
          ELSE Ok([type |-> "storage.S3", bucket |-> cluster.flow_storage,
                   client_options |-> [aws_access_key_id |-> sec[so.key],
                                       aws_secret_access_key |-> sec[so.secret]]],
                  <<so.key, so.secret>>)
        ELSE IF cluster.flow_storage_protocol = ABFS_PROTOCOL THEN
          IF so.secret \notin DOMAIN sec THEN Raise("KeyError", <<so.secret>>)
          ELSE Ok([type |-> "storage.Azure", container |-> cluster.flow_storage,
                   connection_string |-> sec[so.secret]],
                  <<so.secret>>)
        ELSE Raise("UnsupportedFlowStorage", <<>>)

-----------------------------------------------------------------------------
(* get_target_extension *)

get_target_extension(recipe) ==
    IF recipe.class = "XarrayZarrRecipe"
      THEN Ok([type |-> "str", val |-> "zarr"], <<>>)
      ELSE Raise("UnsupportedRecipeType", <<>>)

-----------------------------------------------------------------------------
(* recipe_to_flow *)

Min(a, b) == IF a < b THEN a ELSE b

timedelta(minutes) == [type |-> "timedelta", seconds |-> 60 * minutes]

\* functools.wraps wrapper of set_log_level around a task's run method.
set_log_level(func) == [type |-> "wrapper", sets_level |-> "DEBUG", wrapped |-> func]

\* A task as recipe.to_prefect() hands it over: prefect's defaults.
Task(i) ==
    [type |-> "Task", slug |-> i, max_retries |-> 0, retry_delay |-> NoneObj,
     run |-> [type |-> "method", of |-> i]]

\* recipe.copy_pruned(): a copy keeping the slots, cut down to at most 2 inputs.
copy_pruned(recipe) == [recipe EXCEPT !.ntasks = Min(@, 2), !.pruned = TRUE]

to_prefect(recipe) ==
    [type |-> "Flow", name |-> "pangeo-forge-recipe-flow", recipe |-> recipe,
     tasks |-> [i \in 1..recipe.ntasks |-> Task(i)],
     storage |-> NoneObj, run_config |-> NoneObj, executor |-> NoneObj]

Call(fn, key) == [fn |-> fn, key |-> key]

\* Outcome of recipe_to_flow, with the resolver calls it made and the state in
\* which it leaves the recipe object it was given (it assigns to its slots).
FlowOutcome(e, v, rd, cs, rcp) ==
    [exc |-> e, value |-> v, reads |-> rd, calls |-> cs, recipe |-> rcp]

\* Variant of decorate that stops after the first task.
decorate_first_only(fl, delta) ==
    [fl EXCEPT !.tasks =
        [i \in DOMAIN fl.tasks |->
            IF i = 1
              THEN [fl.tasks[i] EXCEPT !.max_retries = 3, !.retry_delay = delta,
                                       !.run = set_log_level(@)]
              ELSE fl.tasks[i]]]

\* The loop over flow.tasks.
decorate(fl, delta) ==
    [fl EXCEPT !.tasks =
        [i \in DOMAIN fl.tasks |->
            [fl.tasks[i] EXCEPT !.max_retries = 3, !.retry_delay = delta,
                                !.run = set_log_level(@)]]]

recipe_to_flow(bk, m, recipe_id, recipe, tg, sec, pr) ==
    IF IsNone(tg) THEN FlowOutcome("AttributeError", NoneObj, <<>>, <<>>, recipe)
    ELSE
      LET recipe1 == [recipe EXCEPT !.target = tg.target, !.input_cache = tg.cache,
                                    !.metadata_cache = tg.metadata]
          ex == configure_dask_executor(bk.cluster, m.bakery, recipe_id, sec)
          c1 == <<Call("configure_dask_executor", recipe_id)>>
      IN  IF ex.exc # "" THEN FlowOutcome(ex.exc, NoneObj, ex.reads, c1, recipe1)
          ELSE
            LET recipe2 == IF pr THEN copy_pruned(recipe1) ELSE recipe1
                flow0 == to_prefect(recipe2)
                st == configure_flow_storage(bk.cluster, sec)
                c2 == Append(c1, Call("configure_flow_storage", recipe_id))
                r2 == ex.reads \o st.reads
            IN  IF st.exc # "" THEN FlowOutcome(st.exc, NoneObj, r2, c2, recipe1)
                ELSE
                  LET rc == configure_run_config(bk.cluster, m.bakery, recipe_id, sec)
                      c3 == Append(c2, Call("configure_run_config", recipe_id))
                      r3 == r2 \o rc.reads
                  IN  IF rc.exc # "" THEN FlowOutcome(rc.exc, NoneObj, r3, c3, recipe1)
                      ELSE
                        LET flow1 == [flow0 EXCEPT !.storage = st.value,
                                                   !.run_config = rc.value,
                                                   !.executor = ex.value]
                            flow2 == decorate(flow1, timedelta(3))
                        IN  FlowOutcome("", [flow2 EXCEPT !.name = recipe_id], r3, c3,
                                        recipe1)

-----------------------------------------------------------------------------
(* Inputs *)

MaxRecipes == 2

MaxFamily == 3

MaxTasks == 3

VersionValues == {"2021.05.04", "2021.06.05"}

ClusterVersions ==
    [pangeo_notebook_version : VersionValues, pangeo_forge_version : VersionValues,
     prefect_version : VersionValues]

MetaVersions ==
    [pangeo_notebook_version : VersionValues, pangeo_forge_version : VersionValues]

\* The versions of the running image in the runs of register_flow.
RuntimeVersions ==
    [pangeo_notebook_version |-> "2021.05.04", pangeo_forge_version |-> "2021.05.04",
     prefect_version |-> "2021.05.04"]

StorageOptions == [type |-> "StorageOptions", key |-> "S_KEY", secret |-> "S_SECRET"]

ClusterOptions ==
    [vpc |-> "vpc-1", cluster_arn |-> "arn:cluster", task_role_arn |-> "arn:task",
     execution_role_arn |-> "arn:exec", security_groups |-> <<"sg-1">>]

Resources == [type |-> "RecipeBakeryResources", memory |-> 2048, cpu |-> 512]

ClusterOf(cv, type, fsp, maxw) ==
    [type |-> type,
     pangeo_notebook_version |-> cv.pangeo_notebook_version,
     pangeo_forge_version |-> cv.pangeo_forge_version,
     prefect_version |-> cv.prefect_version,
     worker_image |-> "pangeo/forge:img",
     flow_storage |-> "flow-bucket",
     flow_storage_protocol |-> fsp,
     flow_storage_options |-> [type |-> "StorageOptions", key |-> "F_KEY",
                               secret |-> "F_SECRET"],
     max_workers |-> maxw,
     cluster_options |-> ClusterOptions]

BakeryOf(cluster, protocol, so) ==
    [cluster |-> cluster,
     targets |-> [n \in {"bucket", "lake"} |->
                    [private |-> [protocol |-> protocol, storage_options |-> so]]]]

\* meta.recipes: entries naming one object or a dictionary of objects.
ObjectEntry(i) ==
    [id |-> "r" \o ToString(i), object |-> "recipe:recipe", dict_object |-> "None"]

DictEntry(i) ==
    [id |-> "r" \o ToString(i), object |-> "None", dict_object |-> "recipe:recipes"]

Manifests ==
    UNION {
      {[i \in 1..n |-> IF i \in D THEN DictEntry(i) ELSE ObjectEntry(i)] :
          D \in SUBSET (1..n)} : n \in 0..MaxRecipes}

MetaOf(mv, target, resources, recipes) ==
    [pangeo_notebook_version |-> mv.pangeo_notebook_version,
     pangeo_forge_version |-> mv.pangeo_forge_version,
     bakery |-> [id |-> "bakery-1", target |-> target, resources |-> resources],
     recipes |-> recipes]

\* A bakery of one provider uses that provider's storage throughout.
Providers ==
    {[type |-> FARGATE_CLUSTER, protocol |-> S3_PROTOCOL],
     [type |-> AKS_CLUSTER, protocol |-> ABFS_PROTOCOL]}

SecretNames == {"S_KEY", "S_SECRET", "F_KEY", "F_SECRET", "ACTIONS_BOT_TOKEN"}

SecretsWithout(missing) == [n \in SecretNames \ missing |-> "value-of-" \o n]

\* A recipe object as the recipe module defines it; ntasks is the number of
\* tasks its to_prefect() yields.
RecipeObject(class, n) ==
    [type |-> "recipe", class |-> class, ntasks |-> n, pruned |-> FALSE,
     target |-> NoneObj, input_cache |-> NoneObj, metadata_cache |-> NoneObj]

\* A (key, value) pair of recipes_dict.items(), or the id and object of an entry.
Item(key, value) == [type |-> "item", key |-> key, value |-> value]

RecipeClasses == {"XarrayZarrRecipe", "HDFReferenceRecipe"}

\* The dictionaries a dict_object can name: keys m1, m2, ... in insertion
\* order, the i-th recipe yielding i tasks (at most MaxTasks), with at most
\* one member (the b-th) of an unsupported kind, since the iteration ends at
\* the first such member.
Families ==
    UNION {
      {[i \in 1..n |->
          Item("m" \o ToString(i),
               RecipeObject(IF i = b THEN "HDFReferenceRecipe" ELSE "XarrayZarrRecipe",
                            Min(i, MaxTasks)))] :
          b \in 0..n} : n \in 0..MaxFamily}

\* os.environ; "None" stands for a variable that is not set.
EnvOf(project, repo, comment) ==
    [n \in (IF project # "None" THEN {"PREFECT_PROJECT_NAME"} ELSE {})
           \cup (IF repo # "None" THEN {"GITHUB_REPOSITORY"} ELSE {})
           \cup (IF comment # "None" THEN {"COMMENT_ID"} ELSE {}) |->
        IF n = "PREFECT_PROJECT_NAME" THEN project
        ELSE IF n = "GITHUB_REPOSITORY" THEN repo
        ELSE comment]

\* The environments of the runs of register_flow: GITHUB_REPOSITORY is set.
Environs ==
    {EnvOf(p, "org/repo", c) : p \in {"None", "pangeo-forge"}, c \in {"None", "", "4242"}}

\* os.getenv(name): None when the variable is unset.
getenv(env, name) == IF name \in DOMAIN env THEN env[name] ELSE "None"

-----------------------------------------------------------------------------
(* register_flow *)

inputs == <<meta, bakery, versions, secrets, prune>>

effects == <<registered, runs, hooks>>

Init ==
    /\ meta \in {MetaOf(RuntimeVersions, "bucket", NoneObj, rs) : rs \in Manifests}
    /\ bakery \in UNION {
            {BakeryOf(ClusterOf(cv, type, fsp, 10), protocol, so) :
                cv \in ClusterVersions,
                type \in {p.type, "gcp.gke"},
                fsp \in {p.protocol, "gcs"},
                protocol \in {p.protocol, "gcs"},
                so \in {NoneObj, StorageOptions}} : p \in Providers}
    /\ versions = RuntimeVersions
    /\ secrets \in {SecretsWithout({}), SecretsWithout({"ACTIONS_BOT_TOKEN"})}
    /\ prune \in BOOLEAN
    /\ environ = <<>>
    /\ pc = "check_versions"
    /\ exc = ""
    /\ idx = 1
    /\ members = <<>>
    /\ cur = NoneObj
    /\ extension = "None"
    /\ targets = NoneObj
    /\ flow = NoneObj
    /\ flow_id = "None"
    /\ calls = <<>>
    /\ order = <<>>
    /\ registered = <<>>
    /\ runs = <<>>
    /\ hooks = <<>>
    /\ reads = <<>>
    /\ ret = NoneObj

\* An exception leaves register_flow: nothing of it runs afterwards.
Fail(e) == pc' = "failed" /\ exc' = e

\* End of one pass of the loop body: back to the header of the loop it is in.
Continue ==
    IF TruthyStr(meta.recipes[idx].dict_object)
      THEN pc' = "for_member" /\ idx' = idx
      ELSE pc' = "for_recipe" /\ idx' = idx + 1

\* Variant of CheckVersions in which a mismatch is noted but does not end the run.
CheckVersions_result_ignored ==
    /\ pc = "check_versions"
    /\ LET r == check_versions(meta, bakery.cluster, versions)
       IN  pc' = "read_env" /\ exc' = r.exc
    /\ calls' = Append(calls, Call("check_versions", ""))
    /\ UNCHANGED <<inputs, effects, environ, idx, members, cur, extension, targets,
                   flow, flow_id, order, reads, ret>>

\* line 347
CheckVersions ==
    /\ pc = "check_versions"
    /\ LET r == check_versions(meta, bakery.cluster, versions)
       IN  IF r.exc # "" THEN Fail(r.exc) ELSE pc' = "read_env" /\ exc' = exc
    /\ calls' = Append(calls, Call("check_versions", ""))
    /\ UNCHANGED <<inputs, effects, environ, idx, members, cur, extension, targets,
                   flow, flow_id, order, reads, ret>>

\* lines 348-350: the environment is read here for the first time
ReadEnv ==
    /\ pc = "read_env"
    /\ \E env \in Environs :
         /\ environ' = env
         /\ IF "PREFECT_PROJECT_NAME" \notin DOMAIN env
              THEN Fail("KeyError")
              ELSE pc' = "for_recipe" /\ exc' = exc
    /\ UNCHANGED <<inputs, effects, idx, members, cur, extension, targets, flow,
                   flow_id, calls, order, reads, ret>>

\* lines 352-354 and 365: the outer loop header and get_module_attribute
ForRecipe ==
    /\ pc = "for_recipe"
    /\ IF idx > Len(meta.recipes)
         THEN pc' = "done" /\ UNCHANGED <<exc, members, cur, order>>
       ELSE IF TruthyStr(meta.recipes[idx].dict_object)
         THEN \/ \E recipes_dict \in Families :
                   /\ members' = recipes_dict
                   /\ order' = order \o [i \in DOMAIN recipes_dict |-> recipes_dict[i].key]
                   /\ pc' = "for_member"
                   /\ UNCHANGED <<exc, cur>>
              \/ Fail("FileNotFoundError") /\ UNCHANGED <<members, cur, order>>
       ELSE \/ \E class \in RecipeClasses :
                 /\ cur' = Item(meta.recipes[idx].id, RecipeObject(class, MaxTasks))
                 /\ order' = Append(order, meta.recipes[idx].id)
                 /\ pc' = "get_target_extension"
                 /\ UNCHANGED <<exc, members>>
            \/ Fail("FileNotFoundError") /\ UNCHANGED <<members, cur, order>>
    /\ UNCHANGED <<inputs, effects, environ, idx, extension, targets, flow, flow_id,
                   calls, reads, ret>>

\* line 355: the loop over recipes_dict.items()
ForMember ==
    /\ pc = "for_member"
    /\ IF members = <<>>
         THEN pc' = "for_recipe" /\ idx' = idx + 1 /\ UNCHANGED <<members, cur>>
         ELSE /\ cur' = Head(members)
              /\ members' = Tail(members)
              /\ pc' = "get_target_extension"
              /\ idx' = idx
    /\ UNCHANGED <<inputs, effects, environ, exc, extension, targets, flow, flow_id,
                   calls, order, reads, ret>>

\* Variant of GetTargetExtension that skips an object of an unsupported kind.
GetTargetExtension_skips_unsupported ==
    /\ pc = "get_target_extension"
    /\ LET r == get_target_extension(cur.value)
       IN  IF r.exc # ""
             THEN Continue /\ UNCHANGED <<extension, exc>>
             ELSE /\ pc' = "configure_targets" /\ extension' = r.value.val
                  /\ UNCHANGED <<exc, idx>>
    /\ calls' = Append(calls, Call("get_target_extension", cur.key))
    /\ UNCHANGED <<inputs, effects, environ, members, cur, targets, flow, flow_id,
                   order, reads, ret>>

\* lines 356 and 366
GetTargetExtension ==
    /\ pc = "get_target_extension"
    /\ LET r == get_target_extension(cur.value)
       IN  IF r.exc # ""
             THEN Fail(r.exc) /\ UNCHANGED extension
             ELSE pc' = "configure_targets" /\ extension' = r.value.val /\ exc' = exc
    /\ calls' = Append(calls, Call("get_target_extension", cur.key))
    /\ UNCHANGED <<inputs, effects, environ, idx, members, cur, targets, flow, flow_id,
                   order, reads, ret>>

\* lines 357 and 367
ConfigureTargets ==
    /\ pc = "configure_targets"
    /\ LET r == configure_targets(bakery, meta.bakery, cur.key, secrets, extension, environ)
       IN  /\ reads' = reads \o r.reads
           /\ IF r.exc # ""
                THEN Fail(r.exc) /\ UNCHANGED targets
                ELSE pc' = "recipe_to_flow" /\ targets' = r.value /\ exc' = exc
    /\ calls' = Append(calls, Call("configure_targets", cur.key))
    /\ UNCHANGED <<inputs, effects, environ, idx, members, cur, extension, flow,
                   flow_id, order, ret>>

\* lines 358 and 368: the recipe object the loop holds is the one recipe_to_flow
\* assigns the three slots on, whether or not the call then returns
RecipeToFlow ==
    /\ pc = "recipe_to_flow"
    /\ LET r == recipe_to_flow(bakery, meta, cur.key, cur.value, targets, secrets, prune)
       IN  /\ reads' = reads \o r.reads
           /\ calls' = Append(calls, Call("recipe_to_flow", cur.key)) \o r.calls
           /\ cur' = [cur EXCEPT !.value = r.recipe]
           /\ IF r.exc # ""
                THEN Fail(r.exc) /\ UNCHANGED flow
                ELSE pc' = "register" /\ flow' = r.value /\ exc' = exc
    /\ UNCHANGED <<inputs, effects, environ, idx, members, extension, targets,
                   flow_id, order, ret>>

\* Variant of Register that carries on with the next recipe when the engine refuses.
Register_error_skipped ==
    /\ pc = "register"
    /\ calls' = Append(calls, Call("flow.register", cur.key))
    /\ \/ /\ registered' = Append(registered, flow.name)
          /\ flow_id' = "flow-" \o ToString(Len(registered) + 1)
          /\ exc' = exc
          /\ IF TruthyStr(getenv(environ, "COMMENT_ID"))
               THEN pc' = "create_flow_run" /\ idx' = idx
               ELSE Continue
       \/ Continue /\ UNCHANGED <<registered, flow_id, exc>>
    /\ UNCHANGED <<inputs, runs, hooks, environ, members, cur, extension, targets,
                   flow, order, reads, ret>>

\* Variant of Register that goes on to create a run whether or not COMMENT_ID is set.
Register_run_unconditional ==
    /\ pc = "register"
    /\ calls' = Append(calls, Call("flow.register", cur.key))
    /\ \/ /\ registered' = Append(registered, flow.name)
          /\ flow_id' = "flow-" \o ToString(Len(registered) + 1)
          /\ exc' = exc
          /\ pc' = "create_flow_run" /\ idx' = idx
       \/ Fail("ClientError") /\ UNCHANGED <<registered, flow_id, idx>>
    /\ UNCHANGED <<inputs, runs, hooks, environ, members, cur, extension, targets,
                   flow, order, reads, ret>>

\* lines 359-360 and 369-370: flow.register, which the engine may refuse
Register ==
    /\ pc = "register"
    /\ calls' = Append(calls, Call("flow.register", cur.key))
    /\ \/ /\ registered' = Append(registered, flow.name)
          /\ flow_id' = "flow-" \o ToString(Len(registered) + 1)
          /\ exc' = exc
          /\ IF TruthyStr(getenv(environ, "COMMENT_ID"))
               THEN pc' = "create_flow_run" /\ idx' = idx
               ELSE Continue
       \/ Fail("ClientError") /\ UNCHANGED <<registered, flow_id, idx>>
    /\ UNCHANGED <<inputs, runs, hooks, environ, members, cur, extension, targets,
                   flow, order, reads, ret>>

\* lines 361 and 371
CreateFlowRun ==
    /\ pc = "create_flow_run"
    /\ calls' = Append(calls, Call("create_flow_run", cur.key))
    /\ \/ /\ runs' = Append(runs, [flow_id |-> flow_id,
                                   run_name |-> getenv(environ, "COMMENT_ID")])
          /\ pc' = "create_automation"
          /\ exc' = exc
       \/ Fail("ClientError") /\ UNCHANGED runs
    /\ UNCHANGED <<inputs, registered, hooks, environ, idx, members, cur, extension,
                   targets, flow, flow_id, order, reads, ret>>

\* lines 362-363 and 372-373
CreateAutomation ==
    /\ pc = "create_automation"
    /\ reads' = Append(reads, "ACTIONS_BOT_TOKEN")
    /\ IF "ACTIONS_BOT_TOKEN" \notin DOMAIN secrets
         THEN Fail("KeyError") /\ UNCHANGED <<hooks, idx, calls>>
         ELSE /\ calls' = Append(calls, Call("create_automation", cur.key))
              /\ \/ /\ hooks' = Append(hooks, [flow_id |-> flow_id,
                                               pat_token |-> secrets["ACTIONS_BOT_TOKEN"]])
                    /\ exc' = exc
                    /\ Continue
                 \/ Fail("HTTPError") /\ UNCHANGED <<hooks, idx>>
    /\ UNCHANGED <<inputs, registered, runs, environ, members, cur, extension, targets,
                   flow, flow_id, order, ret>>

Next ==
    \/ CheckVersions
    \/ ReadEnv
    \/ ForRecipe
    \/ ForMember
    \/ GetTargetExtension
    \/ ConfigureTargets
    \/ RecipeToFlow
    \/ Register
    \/ CreateFlowRun
    \/ CreateAutomation

Spec == Init /\ [][Next]_vars

-----------------------------------------------------------------------------
(* The resolvers one at a time: each action applies one function of the     *)
(* module to arguments drawn from small sets and records the outcome.       *)

Resolved(fn, out) == [type |-> "call", fn |-> fn, out |-> out]

InitResolvers ==
    /\ meta = MetaOf(RuntimeVersions, "bucket", NoneObj, <<>>)
    /\ bakery = BakeryOf(ClusterOf(RuntimeVersions, FARGATE_CLUSTER, S3_PROTOCOL, 10),
                         S3_PROTOCOL, StorageOptions)
    /\ versions = RuntimeVersions
    /\ secrets = SecretsWithout({})
    /\ prune = FALSE
    /\ environ = <<>>
    /\ pc = "idle"
    /\ exc = ""
    /\ idx = 1
    /\ members = <<>>
    /\ cur = NoneObj
    /\ extension = "None"
    /\ targets = NoneObj
    /\ flow = NoneObj
    /\ flow_id = "None"
    /\ calls = <<>>
    /\ order = <<>>
    /\ registered = <<>>
    /\ runs = <<>>
    /\ hooks = <<>>
    /\ reads = <<>>
    /\ ret = NoneObj

untouched == <<prune, exc, idx, members, targets, flow, flow_id, calls, order,
               registered, runs, hooks, reads>>

ClusterTypes == {FARGATE_CLUSTER, AKS_CLUSTER, "gcp.gke"}

Protocols == {S3_PROTOCOL, ABFS_PROTOCOL, "gcs"}

RecipeNames == {"foo", "r1", "m2"}

ApplyCheckVersions ==
    /\ pc = "idle"
    /\ \E mv \in MetaVersions, cv \in ClusterVersions, rv \in ClusterVersions :
         /\ meta' = MetaOf(mv, "bucket", NoneObj, <<>>)
         /\ bakery' = BakeryOf(ClusterOf(cv, FARGATE_CLUSTER, S3_PROTOCOL, 10),
                               S3_PROTOCOL, StorageOptions)
         /\ versions' = rv
         /\ ret' = Resolved("check_versions", check_versions(meta', bakery'.cluster, rv))
    /\ pc' = "returned"
    /\ UNCHANGED <<untouched, secrets, environ, cur, extension>>

ApplyConfigureTargets ==
    /\ pc = "idle"
    /\ \E protocol \in Protocols, so \in {NoneObj, StorageOptions},
          tname \in {"bucket", "lake", "nowhere"},
          repo \in {"None", "org/repo", "pangeo-forge/staged-recipes"},
          name \in RecipeNames, ext \in {"zarr", "nc"},
          missing \in {{}, {"S_KEY"}, {"S_SECRET"}} :
         /\ meta' = MetaOf(RuntimeVersions, tname, NoneObj, <<>>)
         /\ bakery' = BakeryOf(ClusterOf(RuntimeVersions, FARGATE_CLUSTER, S3_PROTOCOL, 10),
                               protocol, so)
         /\ secrets' = SecretsWithout(missing)
         /\ environ' = EnvOf("pangeo-forge", repo, "None")
         /\ cur' = Item(name, NoneObj)
         /\ extension' = ext
         /\ ret' = Resolved("configure_targets",
                            configure_targets(bakery', meta'.bakery, name, secrets', ext,
                                              environ'))
    /\ pc' = "returned"
    /\ UNCHANGED <<untouched, versions>>

ApplyConfigureDaskExecutor ==
    /\ pc = "idle"
    /\ \E type \in ClusterTypes, maxw \in {10, 50}, name \in RecipeNames,
          res \in {NoneObj, Resources, [Resources EXCEPT !.cpu = 4096, !.memory = 250]},
          missing \in {{}, {"F_SECRET"}} :
         /\ meta' = MetaOf(RuntimeVersions, "bucket", res, <<>>)
         /\ bakery' = BakeryOf(ClusterOf(RuntimeVersions, type, ABFS_PROTOCOL, maxw),
                               ABFS_PROTOCOL, StorageOptions)
         /\ secrets' = SecretsWithout(missing)
         /\ cur' = Item(name, NoneObj)
         /\ ret' = Resolved("configure_dask_executor",
                            configure_dask_executor(bakery'.cluster, meta'.bakery, name,
                                                    secrets'))
    /\ pc' = "returned"
    /\ UNCHANGED <<untouched, versions, environ, extension>>

ApplyConfigureRunConfig ==
    /\ pc = "idle"
    /\ \E type \in ClusterTypes, name \in RecipeNames, missing \in {{}, {"F_SECRET"}} :
         /\ bakery' = BakeryOf(ClusterOf(RuntimeVersions, type, ABFS_PROTOCOL, 10),
                               ABFS_PROTOCOL, StorageOptions)
         /\ secrets' = SecretsWithout(missing)
         /\ cur' = Item(name, NoneObj)
         /\ ret' = Resolved("configure_run_config",
                            configure_run_config(bakery'.cluster, meta.bakery, name,
                                                 secrets'))
    /\ pc' = "returned"
    /\ UNCHANGED <<untouched, meta, versions, environ, extension>>

ApplyConfigureFlowStorage ==
    /\ pc = "idle"
    /\ \E fsp \in Protocols, missing \in {{}, {"F_KEY"}, {"F_SECRET"}} :
         /\ bakery' = BakeryOf(ClusterOf(RuntimeVersions, FARGATE_CLUSTER, fsp, 10),
                               S3_PROTOCOL, StorageOptions)
         /\ secrets' = SecretsWithout(missing)
         /\ ret' = Resolved("configure_flow_storage",
                            configure_flow_storage(bakery'.cluster, secrets'))
    /\ pc' = "returned"
    /\ UNCHANGED <<untouched, meta, versions, environ, cur, extension>>

NextResolvers ==
    \/ ApplyCheckVersions
    \/ ApplyConfigureTargets
    \/ ApplyConfigureDaskExecutor
    \/ ApplyConfigureRunConfig
    \/ ApplyConfigureFlowStorage

SpecResolvers == InitResolvers /\ [][NextResolvers]_vars

-----------------------------------------------------------------------------
(* Properties *)

IsPrefix(a, b) == Len(a) <= Len(b) /\ a = SubSeq(b, 1, Len(a))

Range(f) == {f[i] : i \in DOMAIN f}

\* Number of calls of fn logged so far.
CallCount(fn) == Cardinality({i \in DOMAIN calls : calls[i].fn = fn})

Called(fn) == \E i \in DOMAIN calls : calls[i].fn = fn

VersionErrors ==
    {"UnsupportedPangeoVersion", "UnsupportedPangeoForgeRecipeVersion",
     "UnsupportedPrefectVersion"}

\* The three parties agree on the notebook and framework versions, and the
\* cluster and the runtime on the engine version.
VersionsAgree ==
    /\ meta.pangeo_notebook_version = versions.pangeo_notebook_version
    /\ meta.pangeo_notebook_version = bakery.cluster.pangeo_notebook_version
    /\ versions.pangeo_notebook_version = bakery.cluster.pangeo_notebook_version
    /\ meta.pangeo_forge_version = versions.pangeo_forge_version
    /\ meta.pangeo_forge_version = bakery.cluster.pangeo_forge_version
    /\ versions.pangeo_forge_version = bakery.cluster.pangeo_forge_version
    /\ bakery.cluster.prefect_version = versions.prefect_version

NothingResolved ==
    /\ \A i \in DOMAIN calls : calls[i].fn = "check_versions"
    /\ registered = <<>> /\ runs = <<>> /\ hooks = <<>>
    /\ reads = <<>> /\ order = <<>>
    /\ IsNone(targets) /\ IsNone(flow)

\* C1: version gating is all-or-nothing. Whenever the versions of the manifest,
\* the cluster and the runtime disagree, and in every run that ended in a
\* version-mismatch error, no resolver or builder has been called and no job,
\* run or hook exists, for any recipe of the manifest.
C1_VersionGateAllOrNothing ==
    /\ ~VersionsAgree => NothingResolved /\ pc \in {"check_versions", "failed"}
    /\ exc \in VersionErrors => NothingResolved /\ pc = "failed"
    /\ (pc = "failed" /\ ~VersionsAgree) => exc \in VersionErrors

C1_Witness ==
    /\ pc = "failed"
    /\ exc = "UnsupportedPangeoVersion"
    /\ Len(meta.recipes) = 2
    /\ bakery.cluster.type = FARGATE_CLUSTER

\* The ids of the manifest's single-object entries, in manifest order.
ObjectEntryIds ==
    LET objs == SelectSeq(meta.recipes, LAMBDA e : ~TruthyStr(e.dict_object))
    IN  [i \in DOMAIN objs |-> objs[i].id]

C2_State ==
    /\ IsPrefix(registered, order)
    /\ exc # "" <=> pc = "failed"
    /\ pc = "failed" => ~ENABLED Next
    /\ ~ENABLED Next => pc \in {"done", "failed"}
    /\ pc = "done" =>
         /\ registered = order
         /\ idx = Len(meta.recipes) + 1
         /\ SelectSeq(order, LAMBDA k : k \in Range(ObjectEntryIds)) = ObjectEntryIds

C2_Step ==
    /\ IsPrefix(registered, registered')
    /\ Len(registered') <= Len(registered) + 1
    /\ IsPrefix(order, order')
    /\ idx' >= idx

\* C2: every error propagates immediately and aborts the remaining iterations.
\* Jobs are registered one at a time in the order the loops iterate, so the
\* registered jobs are always a prefix of that order; once an exception is
\* raised nothing more runs; a registered job is never taken back; and the
\* batch ends with every recipe registered or stopped at the first error.
C2_SequentialFailFast == [](C2_State) /\ [][C2_Step]_vars

C2_Witness ==
    /\ pc = "failed"
    /\ Len(registered) >= 1
    /\ Len(order) > Len(registered)
    /\ idx < Len(meta.recipes)


\* The target descriptor configure_targets was applied to.
TargetDescriptor == bakery.targets[meta.bakery.target].private

\* configure_targets was applied to a target of the bakery, with the repository set.
TargetsApplied ==
    /\ IsNone(ret) = FALSE
    /\ ret.fn = "configure_targets"
    /\ meta.bakery.target \in DOMAIN bakery.targets
    /\ "GITHUB_REPOSITORY" \in DOMAIN environ

\* C3: configure_targets raises UnsupportedTarget when the protocol is
\* unrecognized and when the credential options are missing, for either
\* protocol, and returns no Targets value in either case.
C3_MissingOptionsOrProtocolRaises ==
    (/\ TargetsApplied
     /\ \/ TargetDescriptor.protocol \notin {S3_PROTOCOL, ABFS_PROTOCOL}
        \/ IsNone(TargetDescriptor.storage_options))
    => /\ ret.out.exc = "UnsupportedTarget"
       /\ IsNone(ret.out.value)

\* The comparisons of check_versions in the order the claim gives them, each
\* with the error its failure stands for.
VersionComparisons ==
    <<[ok |-> meta.pangeo_notebook_version = versions.pangeo_notebook_version,
       err |-> "UnsupportedPangeoVersion"],
      [ok |-> meta.pangeo_notebook_version = bakery.cluster.pangeo_notebook_version,
       err |-> "UnsupportedPangeoVersion"],
      [ok |-> meta.pangeo_forge_version = versions.pangeo_forge_version,
       err |-> "UnsupportedPangeoForgeRecipeVersion"],
      [ok |-> meta.pangeo_forge_version = bakery.cluster.pangeo_forge_version,
       err |-> "UnsupportedPangeoForgeRecipeVersion"],
      [ok |-> bakery.cluster.prefect_version = versions.prefect_version,
       err |-> "UnsupportedPrefectVersion"]>>

FailingComparisons == {i \in DOMAIN VersionComparisons : ~VersionComparisons[i].ok}

FirstFailing == CHOOSE i \in FailingComparisons : \A j \in FailingComparisons : i <= j

VersionsChecked == IsNone(ret) = FALSE /\ ret.fn = "check_versions"

\* C4: check_versions raises the error of the first failing comparison, in the
\* order notebook/runtime, notebook/cluster, framework/runtime,
\* framework/cluster, engine, and returns True exactly when the three parties
\* agree pairwise on notebook and framework versions and cluster and runtime
\* agree on the engine version.
C4_FirstFailingComparison ==
    VersionsChecked =>
      /\ FailingComparisons # {} => ret.out.exc = VersionComparisons[FirstFailing].err
      /\ FailingComparisons = {} => ret.out.exc = "" /\ ret.out.value.val = TRUE
      /\ ret.out.exc = "" <=> VersionsAgree

C4_Witness ==
    /\ VersionsChecked
    /\ FailingComparisons = {2, 4, 5}
    /\ ret.out.exc = "UnsupportedPangeoVersion"

UnknownClusterType == bakery.cluster.type \notin {FARGATE_CLUSTER, AKS_CLUSTER}

\* C5: with an unrecognized cluster type configure_dask_executor and
\* configure_run_config both raise UnsupportedClusterType, and the batch
\* registers no job, triggers no run and registers no hook, however many
\* recipes the manifest has.
C5_UnknownClusterTypeRegistersNothing ==
    UnknownClusterType =>
      /\ registered = <<>> /\ runs = <<>> /\ hooks = <<>>
      /\ \A n \in Range(order) \cup {"r1"} :
           /\ configure_dask_executor(bakery.cluster, meta.bakery, n, secrets).exc
                = "UnsupportedClusterType"
           /\ configure_run_config(bakery.cluster, meta.bakery, n, secrets).exc
                = "UnsupportedClusterType"
      /\ Called("configure_dask_executor") =>
           pc = "failed" /\ exc = "UnsupportedClusterType"
      /\ pc # "register"

C5_Witness ==
    /\ UnknownClusterType
    /\ Called("configure_dask_executor")
    /\ exc = "UnsupportedClusterType"
    /\ Len(meta.recipes) = 2
    /\ registered = <<>>

\* The recipe id recipe_to_flow was last called with.
LastAssembled ==
    LET at == {i \in DOMAIN calls : calls[i].fn = "recipe_to_flow"}
    IN  calls[CHOOSE i \in at : \A j \in at : j <= i].key

\* C6: every task of every flow recipe_to_flow returns has max_retries = 3 and
\* a retry delay of 3 minutes, however many tasks there are and whether or
\* not the recipe was pruned, and the flow is named after the recipe id.
C6_UniformRetryPolicy ==
    ~IsNone(flow) =>
      /\ \A i \in DOMAIN flow.tasks :
           /\ flow.tasks[i].max_retries = 3
           /\ flow.tasks[i].retry_delay = [type |-> "timedelta", seconds |-> 180]
      /\ flow.name = LastAssembled
      /\ flow.recipe.pruned = prune
      /\ prune => Len(flow.tasks) <= 2

C6_Witness ==
    /\ ~IsNone(flow)
    /\ ~prune
    /\ Len(flow.tasks) = MaxTasks
    /\ flow.tasks[MaxTasks].max_retries = 3


ExecutorBuilt ==
    /\ IsNone(ret) = FALSE
    /\ ret.fn = "configure_dask_executor"
    /\ ret.out.exc = ""

HasHint == ~IsNone(meta.bakery.resources)

\* The worker size the claim gives: the hint, else the cluster type's default.
ExpectedWorkerCpu ==
    IF HasHint THEN meta.bakery.resources.cpu
    ELSE IF bakery.cluster.type = FARGATE_CLUSTER THEN 1024 ELSE 250

ExpectedWorkerMem ==
    IF HasHint THEN meta.bakery.resources.memory
    ELSE IF bakery.cluster.type = FARGATE_CLUSTER THEN 4096 ELSE 512

\* C7: the executor's worker cpu/memory are the recipe's resource hint when
\* there is one and otherwise 1024/4096 (Fargate) or 250/512 (AKS); the
\* scaling envelope is minimum 5, maximum cluster.max_workers for both cluster
\* types, with or without a hint; the Fargate scheduler is 2048/16384
\* whatever the hint.
C7_WorkerSizingAndEnvelope ==
    ExecutorBuilt =>
      LET e == ret.out.value
      IN  /\ bakery.cluster.type \in {FARGATE_CLUSTER, AKS_CLUSTER}
          /\ e.adapt_kwargs = [minimum |-> 5, maximum |-> bakery.cluster.max_workers]
          /\ bakery.cluster.type = FARGATE_CLUSTER =>
               /\ e.cluster_kwargs.worker_cpu = ExpectedWorkerCpu
               /\ e.cluster_kwargs.worker_mem = ExpectedWorkerMem
               /\ e.cluster_kwargs.scheduler_cpu = 2048
               /\ e.cluster_kwargs.scheduler_mem = 16384
          /\ bakery.cluster.type = AKS_CLUSTER =>
               /\ e.cluster_kwargs.pod_template.cpu_request
                    = ToString(ExpectedWorkerCpu) \o "m"
               /\ e.cluster_kwargs.pod_template.memory_request
                    = ToString(ExpectedWorkerMem) \o "Mi"

C7_Witness ==
    /\ ExecutorBuilt
    /\ bakery.cluster.type = AKS_CLUSTER
    /\ HasHint
    /\ bakery.cluster.max_workers = 50
    /\ ret.out.value.cluster_kwargs.pod_template.cpu_request = "4096m"
    /\ ret.out.value.cluster_kwargs.pod_template.memory_request = "250Mi"

TargetsBuilt ==
    /\ TargetsApplied
    /\ ret.out.exc = ""
    /\ ~IsNone(ret.out.value)

\* The URL scheme of the descriptor's protocol: s3 for the object store,
\* abfs for the connection-string store.
ExpectedScheme == IF TargetDescriptor.protocol = S3_PROTOCOL THEN "s3" ELSE "abfs"

\* <protocol>://<target_name>/<namespace>/<recipe_id>
ExpectedBase ==
    ExpectedScheme \o "://" \o meta.bakery.target \o "/"
      \o environ["GITHUB_REPOSITORY"] \o "/" \o cur.key

\* C8: the three paths configure_targets derives are a function of the
\* protocol, the target name, the namespace, the recipe id and the extension
\* alone: output = <protocol>://<target_name>/<namespace>/<recipe_id>.<extension>,
\* input cache = <protocol>://<target_name>/<namespace>/<recipe_id>/cache,
\* metadata cache = the input-cache path followed by /metadata; and the three
\* handles are built on one filesystem handle.
C8_PathDerivation ==
    TargetsBuilt =>
      LET t == ret.out.value
      IN  /\ TargetDescriptor.protocol \in {S3_PROTOCOL, ABFS_PROTOCOL}
          /\ t.target.root_path = ExpectedBase \o "." \o extension
          /\ t.cache.root_path = ExpectedBase \o "/cache"
          /\ t.metadata.root_path = t.cache.root_path \o "/metadata"
          /\ t.target.fs = t.cache.fs
          /\ t.cache.fs = t.metadata.fs
          /\ t.target.fs.type =
               (IF TargetDescriptor.protocol = S3_PROTOCOL
                  THEN "S3FileSystem" ELSE "AzureBlobFileSystem")

C8_Witness ==
    /\ TargetsBuilt
    /\ TargetDescriptor.protocol = S3_PROTOCOL
    /\ ret.out.value.target.root_path = "s3://bucket/org/repo/foo.zarr"
    /\ ret.out.value.cache.root_path = "s3://bucket/org/repo/foo/cache"
    /\ ret.out.value.metadata.root_path = "s3://bucket/org/repo/foo/cache/metadata"


\* A correlation id was supplied: COMMENT_ID is set to a non-empty string
\* (the test `if comment_id:` of the code).
comment_id == getenv(environ, "COMMENT_ID")

CorrelationIdSupplied == TruthyStr(comment_id)

\* The id flow.register returned for the i-th registered job.
FlowIdOf(i) == "flow-" \o ToString(i)

\* C9: with a correlation id, each registration is followed by a run of that
\* job under that id and then by a hook for that job, before the next recipe
\* is processed: hooks <= runs <= jobs with each difference at most 1, the
\* i-th run and the i-th hook are those of the i-th job, outside the
\* run/hook steps the three counts are equal unless the batch failed, and they
\* are equal when the batch completes. Without a correlation id there is never
\* a run nor a hook, and ACTIONS_BOT_TOKEN is never looked up.
C9_RunAndHookFollowRegistration ==
    /\ Len(hooks) <= Len(runs) /\ Len(runs) <= Len(hooks) + 1
    /\ Len(runs) <= Len(registered)
    /\ CorrelationIdSupplied => Len(registered) <= Len(runs) + 1
    /\ \A i \in DOMAIN runs :
         runs[i] = [flow_id |-> FlowIdOf(i), run_name |-> comment_id]
    /\ \A i \in DOMAIN hooks :
         hooks[i] = [flow_id |-> FlowIdOf(i), pat_token |-> secrets["ACTIONS_BOT_TOKEN"]]
    /\ CorrelationIdSupplied =>
         /\ pc \notin {"create_flow_run", "create_automation", "failed"} =>
              Len(runs) = Len(registered) /\ Len(hooks) = Len(registered)
         /\ pc = "create_flow_run" =>
              Len(registered) = Len(runs) + 1 /\ Len(runs) = Len(hooks)
         /\ pc = "create_automation" =>
              Len(registered) = Len(runs) /\ Len(runs) = Len(hooks) + 1
         /\ pc = "done" =>
              Len(runs) = Len(order) /\ Len(hooks) = Len(order)
    /\ ~CorrelationIdSupplied =>
         /\ runs = <<>> /\ hooks = <<>>
         /\ "ACTIONS_BOT_TOKEN" \notin Range(reads)
         /\ ~Called("create_flow_run") /\ ~Called("create_automation")

C9_Witness ==
    /\ CorrelationIdSupplied
    /\ pc = "done"
    /\ Len(registered) = 3
    /\ Len(runs) = 3
    /\ Len(hooks) = 3

Unsupported(recipe) == recipe.class # "XarrayZarrRecipe"

ResolverCalls ==
    {"configure_dask_executor", "configure_flow_storage", "configure_run_config"}

\* The calls made for one object come in the order get_target_extension,
\* configure_targets, recipe_to_flow (with the resolvers it calls), flow.register.
CallsInOrder ==
    \A i \in DOMAIN calls :
      /\ calls[i].fn = "configure_targets" =>
           i > 1 /\ calls[i - 1] = Call("get_target_extension", calls[i].key)
      /\ calls[i].fn = "recipe_to_flow" =>
           i > 1 /\ calls[i - 1] = Call("configure_targets", calls[i].key)
      /\ calls[i].fn = "flow.register" =>
           \E j \in 1..(i - 1) :
             /\ calls[j] = Call("recipe_to_flow", calls[i].key)
             /\ \A k \in (j + 1)..(i - 1) : calls[k].fn \in ResolverCalls

\* C10: for each object the steps run in the order kind check, target
\* resolution, assembly, registration. An object of an unsupported kind raises
\* UnsupportedRecipeType with nothing else called for it; the objects
\* processed before it stay registered and nothing after it is processed,
\* whether it is a single object or a member of a dictionary of objects.
C10_KindCheckFirst ==
    /\ CallsInOrder
    /\ (/\ ~IsNone(cur)
        /\ Unsupported(cur.value)
        /\ pc # "get_target_extension")
       => /\ pc = "failed"
          /\ exc = "UnsupportedRecipeType"
    /\ exc = "UnsupportedRecipeType" =>
         /\ Unsupported(cur.value)
         /\ calls[Len(calls)] = Call("get_target_extension", cur.key)
         /\ CallCount("get_target_extension") = Len(registered) + 1
         /\ registered = SubSeq(order, 1, Len(registered))
         /\ order[Len(registered) + 1] = cur.key
         /\ ~ENABLED Next

C10_Witness ==
    /\ exc = "UnsupportedRecipeType"
    /\ TruthyStr(meta.recipes[idx].dict_object)
    /\ registered = <<"m1">>
    /\ cur.key = "m2"
    /\ members # <<>>
    /\ idx < Len(meta.recipes)

====
